---- MODULE Spec2Model ----
(***************************************************************************)
(* make-polar-rs: the record assembler (Data::load_reader), the renderer   *)
(* (Data::graph) and the mode-pair reduction (calculate_bin_values) of     *)
(* src/src/datapoints.rs.                                                  *)
(*                                                                         *)
(* Numbers.  An f32 measurement is an integer count of Unit-ths (2^-20):   *)
(* the value 2.0 is 2 * Unit, and Unit + 1 is the f32 1.00000095...; all   *)
(* values used are exactly representable in an f32 and so are their        *)
(* differences.  A timestamp is an integer number of milliseconds since    *)
(* the epoch, DateTime::default() being 0.                                 *)
(***************************************************************************)
EXTENDS Integers, Sequences, FiniteSets, TLC

VARIABLES
    pc,              \* position of the running function
    dp,              \* load_reader: the accumulator
    data,            \* Data.data, the DataSet
    sentence,        \* load_reader: the sentence of the current iteration
    boat_sentences,  \* history: boat-speed sentences with a speed > 0 so far
    wind_sentences,  \* history: wind (MWV) sentences so far
    width,           \* graph: argument
    height,          \* graph: argument
    start_datetime,  \* graph: argument
    end_datetime,    \* graph: argument
    speed_ratio,     \* graph: local, an f32 <<significand, exponent>>
    direction_ratio, \* graph: local, an f32 <<significand, exponent>>
    bin_time_range,  \* graph: local, milliseconds
    stop_time,       \* graph: local
    bin_start_time,  \* graph: local
    x,               \* graph: local, the column counter
    column,          \* graph: the draw calls of the latest loop iteration
    graphicimage,    \* graph: the canvas, <<>> before GraphicImage::new
    members,         \* calculate_bin_values: argument
    result           \* calculate_bin_values: returned pair, <<>> before the call

vars == <<pc, dp, data, sentence, width, height, start_datetime, end_datetime,
          speed_ratio, direction_ratio, bin_time_range, stop_time,
          bin_start_time, x, column,
          graphicimage, members, result, boat_sentences, wind_sentences>>

loadVars == <<dp, data, sentence, boat_sentences, wind_sentences>>
graphVars == <<width, height, start_datetime, end_datetime, speed_ratio,
               direction_ratio, bin_time_range, stop_time, bin_start_time, x,
               column, graphicimage>>
binVars == <<members, result>>

----------------------------------------------------------------------------
(* Scales and bounds *)

\* a measurement is counted in units of 2^-UnitBits
UnitBits == 20

Unit == 2 ^ UnitBits

DayMs == 86400000

MaxPoints == 2

MaxLen == 4

MaxData == 3

MaxT == 3

MaxWidth == 2

MaxHeight == 20

Min(a, b) == IF a <= b THEN a ELSE b

Max(a, b) == IF a >= b THEN a ELSE b

Abs(a) == IF a < 0 THEN -a ELSE a

----------------------------------------------------------------------------
(* DataPoint and the decoded sentences *)

DataPoint(t, b, w, d) ==
    [timestamp |-> t, boatspeed |-> b, windspeed |-> w, winddirection |-> d]

DataPoint_new == DataPoint(0, 0, 0, 0)

Ok(v) == [ok |-> TRUE, v |-> v]

Err == [ok |-> FALSE, v |-> 0]

TimeOnlyKinds == {"BWC", "BWR", "GGA", "GRS", "GST", "GXA", "TRF", "ZFO"}

FullDateKinds == {"RMC", "ZDA", "ZTG"}

BoatKinds == {"VBW", "VHW"}

Sentence(k, t, ws, ang, bs) ==
    [kind |-> k, timestamp |-> t, wind_speed |-> ws, angle_true |-> ang,
     water_speed |-> bs]

NoSentence == Sentence("none", Err, Err, Err, Err)

\* Decoded field values the reader is fed.
TimeOfDayVals == {0, 1000, 2 * DayMs + 1000}

DateTimeVals == {0, DayMs + 2000}

WindSpeedVals == {0, 5 * Unit}

AngleVals == {0, 10 * Unit}

WaterSpeedVals == {0 - Unit, 0, 2 * Unit}

Results(S) == {Err} \cup {Ok(v) : v \in S}

Sentences ==
    {Sentence(k, t, Err, Err, Err) : k \in TimeOnlyKinds, t \in Results(TimeOfDayVals)}
    \cup {Sentence(k, t, Err, Err, Err) : k \in FullDateKinds, t \in Results(DateTimeVals)}
    \cup {Sentence("MWV", Err, ws, ang, Err) :
             ws \in Results(WindSpeedVals), ang \in Results(AngleVals)}
    \cup {Sentence(k, Err, Err, Err, bs) : k \in BoatKinds, bs \in Results(WaterSpeedVals)}
    \cup {Sentence("GLL", Err, Err, Err, Err)}

----------------------------------------------------------------------------
(* Data::process_nmea and its helpers *)

process_utc_time_Replace(datapoint, time) ==
    IF time.ok THEN [datapoint EXCEPT !.timestamp = time.v] ELSE datapoint

\* date of the accumulator, time of day of the sentence
process_utc_time(datapoint, time) ==
    IF time.ok
    THEN [datapoint EXCEPT !.timestamp =
              (datapoint.timestamp \div DayMs) * DayMs + (time.v % DayMs)]
    ELSE datapoint

process_utc_timestamp(datapoint, time) ==
    IF time.ok THEN [datapoint EXCEPT !.timestamp = time.v] ELSE datapoint

process_mwv_Both(datapoint, s) ==
    IF s.wind_speed.ok /\ s.angle_true.ok
    THEN [datapoint EXCEPT !.windspeed = s.wind_speed.v,
                           !.winddirection = s.angle_true.v]
    ELSE datapoint

process_mwv(datapoint, s) ==
    LET d1 == IF s.wind_speed.ok
              THEN [datapoint EXCEPT !.windspeed = s.wind_speed.v]
              ELSE datapoint
    IN  IF s.angle_true.ok THEN [d1 EXCEPT !.winddirection = s.angle_true.v] ELSE d1

process_water_speed(datapoint, s) ==
    IF s.water_speed.ok
    THEN [datapoint EXCEPT !.boatspeed = s.water_speed.v]
    ELSE datapoint

process_nmea(datapoint, s) ==
    CASE s.kind \in TimeOnlyKinds -> process_utc_time(datapoint, s.timestamp)
      [] s.kind \in FullDateKinds -> process_utc_timestamp(datapoint, s.timestamp)
      [] s.kind = "MWV" -> process_mwv(datapoint, s)
      [] s.kind \in BoatKinds -> process_water_speed(datapoint, s)
      [] OTHER -> datapoint

----------------------------------------------------------------------------
(* Data::load_reader *)

complete_NoTimestamp(p) ==
    p.windspeed > 0 /\ p.boatspeed > 0 /\ p.winddirection # 0

\* the condition of the if at lines 97-100
complete(p) ==
    /\ p.windspeed > 0
    /\ p.boatspeed > 0
    /\ p.winddirection # 0
    /\ p.timestamp # 0

next_accumulator_Fresh(p) == DataPoint_new

next_accumulator_KeepSpeed(p) == DataPoint(p.timestamp, p.boatspeed, 0, 0)

\* the accumulator after a push, lines 102-109
next_accumulator(p) == DataPoint(p.timestamp, 0, 0, 0)

\* a count of sentences, followed up to MaxPoints, the most points a
\* DataSet is followed to; from there on it stands for "MaxPoints or more"
count_sentence(n, counted) == IF counted THEN Min(n + 1, MaxPoints) ELSE n

\* one iteration of the for loop over a line that decoded to sentence s
LoadLine(s) ==
    /\ pc = "load"
    /\ Len(data) < MaxPoints
    /\ sentence' = s
    /\ boat_sentences' =
           count_sentence(boat_sentences,
               s.kind \in BoatKinds /\ s.water_speed.ok /\ s.water_speed.v > 0)
    /\ wind_sentences' = count_sentence(wind_sentences, s.kind = "MWV")
    /\ LET upd == process_nmea(dp, s)
       IN  IF complete(upd)
           THEN /\ data' = Append(data, upd)
                /\ dp' = next_accumulator(upd)
           ELSE /\ data' = data
                /\ dp' = upd
    /\ UNCHANGED <<pc, graphVars, binVars>>

\* a line that cannot be read or decoded: exit(-1), lines 86-94
LoadFatal ==
    /\ pc = "load"
    /\ pc' = "exit"
    /\ UNCHANGED <<loadVars, graphVars, binVars>>

\* the reader is exhausted: load_reader returns
LoadEnd ==
    /\ pc = "load"
    /\ pc' = "loaded"
    /\ UNCHANGED <<loadVars, graphVars, binVars>>

IdleGraph ==
    /\ width = 1 /\ height = 1 /\ start_datetime = 0 /\ end_datetime = 0
    /\ bin_time_range = 0 /\ stop_time = 0 /\ bin_start_time = 0 /\ x = 0
    /\ speed_ratio = <<0, 0>>
    /\ direction_ratio = <<0, 0>>
    /\ column = <<>>
    /\ graphicimage = <<>>

IdleBin == members = <<>> /\ result = <<>>

IdleLoad ==
    /\ dp = DataPoint_new
    /\ sentence = NoSentence
    /\ boat_sentences = 0
    /\ wind_sentences = 0

Init ==
    /\ pc = "load"
    /\ IdleLoad
    /\ data = <<>>
    /\ IdleGraph
    /\ IdleBin

Next ==
    \/ \E s \in Sentences : LoadLine(s)
    \/ LoadFatal
    \/ LoadEnd

Spec == Init /\ [][Next]_vars

----------------------------------------------------------------------------
(* calculate_bin_values *)

\* euclid's ApproxEq for f32, called at line 300: |a - b| < 1.0e-6.  On
\* values counted in Unit-ths that is |a - b| * 10^6 < Unit, written without
\* the product.
approx_eq(a, b) == Abs(a - b) <= (Unit - 1) \div 1000000

\* index of the first entry the item is approximately equal to, 0 if none:
\* the inner for loop, lines 299-305
find_entry(freq, item) ==
    LET hits == {i \in 1..Len(freq) : approx_eq(freq[i][1], item)}
    IN  IF hits = {} THEN 0 ELSE CHOOSE i \in hits : \A j \in hits : i <= j

\* one iteration of the outer for loop, lines 297-309
add_item(freq, item) ==
    LET i == find_entry(freq, item)
    IN  IF i > 0
        THEN [freq EXCEPT ![i] = <<@[1], @[2] + 1>>]
        ELSE Append(freq, <<item, 1>>)

RECURSIVE count_frequencies(_)
\* speed_frequencies after the loop of lines 296-309: <<value, count>> pairs
count_frequencies(d) ==
    IF d = <<>>
    THEN <<>>
    ELSE add_item(count_frequencies(SubSeq(d, 1, Len(d) - 1)), d[Len(d)])

\* the closure given to sort_by, lines 311-318
compare(a, b) ==
    IF a[2] # b[2]
    THEN (IF a[2] < b[2] THEN "Less" ELSE "Greater")
    ELSE IF a[1] < b[1] THEN "Less"
         ELSE IF a[1] > b[1] THEN "Greater" ELSE "Equal"

RECURSIVE insert_sorted(_, _)
insert_sorted(s, e) ==
    IF s = <<>> THEN <<e>>
    ELSE IF compare(e, Head(s)) = "Less"
         THEN <<e>> \o s
         ELSE <<Head(s)>> \o insert_sorted(Tail(s), e)

RECURSIVE sort_by(_)
\* Vec::sort_by: a stable sort, ascending by compare
sort_by(s) ==
    IF s = <<>> THEN <<>>
    ELSE insert_sorted(sort_by(SubSeq(s, 1, Len(s) - 1)), s[Len(s)])

reverse(s) == [i \in 1..Len(s) |-> s[Len(s) + 1 - i]]

\* speed_frequencies after lines 311-319
sorted_frequencies(d) == reverse(sort_by(count_frequencies(d)))

pick_pair_DefaultZero(freq) ==
    LET a == freq[1][1]
        b == IF Len(freq) = 1 THEN 0 ELSE freq[2][1]
    IN  <<Min(a, b), Max(a, b)>>

pick_pair_Unordered(freq) ==
    LET a == freq[1][1]
        b == IF Len(freq) = 1 THEN freq[1][1] ELSE freq[2][1]
    IN  <<a, b>>

\* lines 320-326
pick_pair(freq) ==
    LET a == freq[1][1]
        b == IF Len(freq) = 1 THEN freq[1][1] ELSE freq[2][1]
    IN  <<Min(a, b), Max(a, b)>>

calculate_bin_values(d) ==
    IF Len(d) = 0 THEN <<0, 0>>
    ELSE IF Len(d) = 1 THEN <<d[1], d[1]>>
    ELSE pick_pair(sorted_frequencies(d))

\* member values: 1.0, its two f32 neighbours at 2^-20 and 2^-19 above it,
\* 2.0 and 3.0
BinVals == {Unit, Unit + 1, Unit + 2, 2 * Unit, 3 * Unit}

Lists(S, n) == UNION {[1..k -> S] : k \in 0..n}

InitBin ==
    /\ pc = "call"
    /\ members \in Lists(BinVals, MaxLen)
    /\ result = <<>>
    /\ IdleLoad
    /\ data = <<>>
    /\ IdleGraph

Calculate ==
    /\ pc = "call"
    /\ result' = calculate_bin_values(members)
    /\ pc' = "returned"
    /\ UNCHANGED <<members, loadVars, graphVars>>

NextBin == Calculate

SpecBin == InitBin /\ [][NextBin]_vars

----------------------------------------------------------------------------
(* Data::graph *)

\* the filter of line 136
in_window(a) == a.timestamp >= start_datetime /\ a.timestamp <= end_datetime

visible == SelectSeq(data, in_window)

RECURSIVE reduce_min(_, _)
reduce_min(s, field) ==
    IF Len(s) = 1 THEN s[1][field]
    ELSE Min(reduce_min(SubSeq(s, 1, Len(s) - 1), field), s[Len(s)][field])

RECURSIVE reduce_max(_, _)
reduce_max(s, field) ==
    IF Len(s) = 1 THEN s[1][field]
    ELSE Max(reduce_max(SubSeq(s, 1, Len(s) - 1), field), s[Len(s)][field])

\* the tuple reduced at lines 126-157, over a non-empty filtered sequence
earliest_time == reduce_min(visible, "timestamp")

latest_time == reduce_max(visible, "timestamp")

largest_boatspeed == reduce_max(visible, "boatspeed")

largest_windspeed == reduce_max(visible, "windspeed")

(* f32 arithmetic.  An f32 that is not a measurement is a pair <<m, e>>    *)
(* standing for m * 2^e, m a significand of at most 24 bits; every result  *)
(* is rounded to the nearest f32, ties to the even significand, as the     *)
(* hardware does.                                                          *)

\* floor(log2(n)) for 1 <= n < 2^31, by halving the range five times
log2_floor(n) ==
    LET a  == IF n >= 2 ^ 16 THEN 16 ELSE 0
        n1 == n \div 2 ^ a
        b  == IF n1 >= 2 ^ 8 THEN 8 ELSE 0
        n2 == n1 \div 2 ^ b
        c  == IF n2 >= 2 ^ 4 THEN 4 ELSE 0
        n3 == n2 \div 2 ^ c
        d  == IF n3 >= 2 ^ 2 THEN 2 ELSE 0
        n4 == n3 \div 2 ^ d
    IN  a + b + c + d + (IF n4 >= 2 THEN 1 ELSE 0)

\* q + r / d (0 <= r < d) rounded to a whole number, ties to even
round_even(q, r, d) ==
    IF r > d - r \/ (r = d - r /\ q % 2 = 1) THEN q + 1 ELSE q

RECURSIVE f32_quotient(_, _, _, _)
\* the f32 nearest to (q + r / d) * 2^e, for q < 2^24: the quotient is
\* developed bit by bit until its significand has 24 bits, then rounded
f32_quotient(q, r, d, e) ==
    IF q >= 2 ^ 23 \/ (q = 0 /\ r = 0)
    THEN <<round_even(q, r, d), e>>
    ELSE LET bit == IF r >= d - r THEN 1 ELSE 0
         IN  f32_quotient(2 * q + bit, r - bit * (d - r) + (1 - bit) * r, d, e - 1)

\* a / b in f32, for whole a >= 0 and b > 0 that are f32 values
f32_div(a, b) ==
    LET q == a \div b
    IN  IF q < 2 ^ 24
        THEN f32_quotient(q, a % b, b, 0)
        ELSE LET e  == log2_floor(q) - 23
                 bp == b * 2 ^ e
             IN  <<round_even(a \div bp, a % bp, bp), e>>

\* `as i64` / `as u32` of an f32 >= 0: truncation
f32_trunc(f) ==
    IF f[2] >= 0 THEN f[1] * 2 ^ f[2]
    ELSE IF 0 - f[2] > 30 THEN 0
    ELSE f[1] \div 2 ^ (0 - f[2])

\* `n as f32` for a whole n >= 0, as the whole number the f32 is
as_f32(n) == f32_trunc(f32_div(n, 1))

\* (v * ratio) as u32 for a measurement v >= 0 counted in Unit-ths and an
\* f32 ratio >= 0: the exact product p = v * m, computed in limbs of 12 bits
\* and held as h * 2^24 + l, is rounded to a significand of 24 bits by
\* dropping its c lowest bits; the f32 product is that significand times
\* 2^(c + exponent of the ratio - UnitBits), and the truncation follows
f32_mul_as_u32(v, ratio) ==
    LET m   == ratio[1]
        v1  == v \div 4096
        v0  == v % 4096
        m1  == m \div 4096
        m0  == m % 4096
        mid == v1 * m0 + v0 * m1
        low == (mid % 4096) * 4096 + v0 * m0
        l   == low % 2 ^ 24
        h   == v1 * m1 + mid \div 4096 + low \div 2 ^ 24
        c   == IF h = 0 THEN 0 ELSE log2_floor(h) + 1
        sig == IF c = 0 THEN l
               ELSE IF c <= 24
               THEN round_even(h * 2 ^ (24 - c) + (l \div 2 ^ c), l % 2 ^ c, 2 ^ c)
               ELSE LET q    == h \div 2 ^ (c - 24)
                        hr   == h % 2 ^ (c - 24)
                        half == 2 ^ (c - 25)
                    IN  IF hr > half \/ (hr = half /\ (l > 0 \/ q % 2 = 1))
                        THEN q + 1
                        ELSE q
    IN  f32_trunc(<<sig, c + ratio[2] - UnitBits>>)

\* (v * speed_ratio) as u32
speed_y(v) == f32_mul_as_u32(v, speed_ratio)

\* height - (v * direction_ratio) as u32
direction_y(v) == height - f32_mul_as_u32(v, direction_ratio)

fold_Modulo(v) == IF v > 180 * Unit THEN v - 180 * Unit ELSE v

\* lines 182-186
fold(v) == IF v > 180 * Unit THEN 360 * Unit - v ELSE v

\* a sweep is followed for XCap iterations: more than any sweep of InitGraph
\* with a positive bin duration makes, so that only the sweeps that never
\* end are cut short
XCap == MaxT + 2

Draw(col, from, to, colour) == [x |-> col, y0 |-> from, y1 |-> to, colour |-> colour]

draw_item_SegmentFirst(col, lo, hi, colour) ==
    << Draw(col, lo, hi, colour),
       Draw(col, IF lo >= 6 THEN lo - 6 ELSE 0, Min(lo + 6, height - 1), colour),
       Draw(col, IF hi >= 6 THEN hi - 6 ELSE 0, Min(hi + 6, height - 1), colour) >>

\* the three line_from_to calls of lines 214-224 for one item
draw_item(col, lo, hi, colour) ==
    << Draw(col, IF lo >= 6 THEN lo - 6 ELSE 0, Min(lo + 6, height - 1), colour),
       Draw(col, IF hi >= 6 THEN hi - 6 ELSE 0, Min(hi + 6, height - 1), colour),
       Draw(col, lo, hi, colour) >>

values(s, field) == [i \in 1..Len(s) |-> s[i][field]]

\* the members of the bin starting at t: the filter of line 175
bin_data_set(t) ==
    LET in_bin(a) == a.timestamp >= t /\ a.timestamp < t + bin_time_range
    IN  SelectSeq(data, in_bin)

\* the draw calls of one iteration of the while loop, lines 170-225
draw_column(t, col) ==
    LET set   == bin_data_set(t)
        dirs  == [i \in 1..Len(set) |-> fold(set[i].winddirection)]
        boat  == calculate_bin_values(values(set, "boatspeed"))
        wind  == calculate_bin_values(values(set, "windspeed"))
        dir   == calculate_bin_values(dirs)
    IN  draw_item(col, speed_y(boat[1]), speed_y(boat[2]), "BOAT_SPEED_COLOUR")
        \o draw_item(col, speed_y(wind[1]), speed_y(wind[2]), "WIND_SPEED_COLOUR")
        \o draw_item(col, direction_y(dir[2]), direction_y(dir[1]),
                     "WIND_DIRECTION_COLOUR")

GraphicImage_new_Swapped(w, h) == [width |-> h, height |-> w]

\* GraphicImage::new(width, height), line 124: a blank canvas of that size
GraphicImage_new(w, h) == [width |-> w, height |-> h]

\* lines 124-167: up to the while loop
GraphEnter ==
    /\ pc = "graph"
    /\ graphicimage' = GraphicImage_new(width, height)
    /\ IF Len(data) >= 2
       THEN IF visible = <<>>
            THEN \* reduce gives None and unwrap panics, line 157
                 /\ pc' = "panic"
                 /\ UNCHANGED <<speed_ratio, direction_ratio, bin_time_range,
                                bin_start_time, stop_time>>
            ELSE /\ pc' = "sweep"
                 \* line 158: (height - 1) as f32 / (floor(largest speed) + 1)
                 /\ speed_ratio' =
                        f32_div(as_f32(height - 1),
                                Max(largest_boatspeed, largest_windspeed) \div Unit + 1)
                 \* line 159: height as f32 / 180
                 /\ direction_ratio' = f32_div(as_f32(height), 180)
                 \* lines 161-163: (milliseconds as f32 / width as f32) as i64
                 /\ bin_time_range' =
                        f32_trunc(f32_div(
                            as_f32(Min(latest_time, end_datetime) - earliest_time),
                            as_f32(width)))
                 /\ bin_start_time' = Max(earliest_time, start_datetime)
                 /\ stop_time' = Min(latest_time, end_datetime)
       ELSE /\ pc' = "done"
            /\ UNCHANGED <<speed_ratio, direction_ratio, bin_time_range,
                           bin_start_time, stop_time>>
    /\ UNCHANGED <<x, column, width, height, start_datetime, end_datetime,
                   loadVars, binVars>>

\* one iteration of the while loop, lines 169-229
SweepStep ==
    /\ pc = "sweep"
    /\ bin_start_time <= stop_time
    /\ x < XCap
    /\ column' = draw_column(bin_start_time, x)
    /\ x' = x + 1
    /\ bin_start_time' = bin_start_time + bin_time_range
    /\ UNCHANGED <<pc, speed_ratio, direction_ratio, bin_time_range, stop_time,
                   width, height, start_datetime, end_datetime, graphicimage,
                   loadVars, binVars>>

\* the loop condition fails: to_image and return, lines 169 and 231
SweepEnd ==
    /\ pc = "sweep"
    /\ bin_start_time > stop_time
    /\ pc' = "done"
    /\ UNCHANGED <<loadVars, graphVars, binVars>>

\* the fixes a DataSet is made of: a boat speed of 2 under a wind of 5 from
\* 10 degrees at every instant, and a boat speed of 9 under a wind of 5 from
\* 200 degrees at the first and at the last instant
GraphPoints ==
    {DataPoint(t, 2 * Unit, 5 * Unit, 10 * Unit) : t \in 0..MaxT}
    \cup {DataPoint(t, 9 * Unit, 5 * Unit, 200 * Unit) : t \in {0, MaxT}}

\* three fixes a second apart, boat speeds 2, 2, 9, wind speed 5 and wind
\* direction 10 throughout
ScenarioData ==
    << DataPoint(0, 2 * Unit, 5 * Unit, 10 * Unit),
       DataPoint(1000, 2 * Unit, 5 * Unit, 10 * Unit),
       DataPoint(2000, 9 * Unit, 5 * Unit, 10 * Unit) >>

\* graph called on the DataSets of the bounds, or on ScenarioData with one
\* column for the whole of [0 s, 2 s]
InitGraph ==
    /\ pc = "graph"
    /\ \/ /\ data \in Lists(GraphPoints, MaxData)
          /\ width \in 1..MaxWidth
          /\ start_datetime \in 0..MaxT
          /\ end_datetime \in start_datetime..MaxT
       \/ /\ data = ScenarioData
          /\ width = 1
          /\ start_datetime = 0
          /\ end_datetime = 2000
    /\ height = MaxHeight
    /\ bin_time_range = 0 /\ stop_time = 0 /\ bin_start_time = 0 /\ x = 0
    /\ speed_ratio = <<0, 0>>
    /\ direction_ratio = <<0, 0>>
    /\ column = <<>>
    /\ graphicimage = <<>>
    /\ IdleLoad
    /\ IdleBin

NextGraph == GraphEnter \/ SweepStep \/ SweepEnd

SpecGraph == InitGraph /\ [][NextGraph]_vars

----------------------------------------------------------------------------
(* The wind-direction fold of lines 181-187 on its own *)

\* directions fed to the fold: every whole degree of [0, 360] and the f32
\* neighbours of 180, 2^-16 below and above it
FoldVals ==
    {d * Unit : d \in 0..360} \cup {180 * Unit - 16, 180 * Unit + 16}

InitFold ==
    /\ pc = "fold"
    /\ members \in {<<v>> : v \in FoldVals}
    /\ result = <<>>
    /\ IdleLoad
    /\ data = <<>>
    /\ IdleGraph

\* the closure applied to a direction, and applied again to what it returned
ApplyFold ==
    /\ pc = "fold"
    /\ result' = <<fold(members[1]), fold(fold(members[1]))>>
    /\ pc' = "folded"
    /\ UNCHANGED <<members, loadVars, graphVars>>

NextFold == ApplyFold

SpecFold == InitFold /\ [][NextFold]_vars

----------------------------------------------------------------------------
(* Record assembler: properties of Spec *)

TimeKinds == TimeOnlyKinds \cup FullDateKinds

\* C1: every point of the DataSet has boatspeed > 0, windspeed > 0,
\* winddirection /= 0 and a timestamp other than the default (epoch) one.
C1_EmittedPointsComplete ==
    \A i \in 1..Len(data) :
        /\ data[i].boatspeed > 0
        /\ data[i].windspeed > 0
        /\ data[i].winddirection # 0
        /\ data[i].timestamp # 0

\* a point dated by a time-only sentence alone has been emitted after a
\* sentence whose field failed to decode left the accumulator as it was
C1_Witness ==
    /\ Len(data) >= 1
    /\ data[1].timestamp = 1000
    /\ dp.timestamp = 1000
    /\ sentence.kind \in BoatKinds
    /\ ~sentence.water_speed.ok

\* C2: in every iteration of the reader loop a point is appended exactly when
\* the accumulator as updated by the sentence is complete; the appended point
\* is that accumulator, it is appended at the end and alone, the three
\* measurements of the accumulator are reset to 0 in the same step, and an
\* incomplete accumulator leaves the DataSet unchanged.
C2_AppendIffComplete ==
    [][(pc = "load" /\ pc' = "load") =>
        LET upd == process_nmea(dp, sentence')
            ok  == /\ upd.boatspeed > 0
                   /\ upd.windspeed > 0
                   /\ upd.winddirection # 0
                   /\ upd.timestamp # 0
        IN  /\ ok => /\ data' = Append(data, upd)
                     /\ dp'.boatspeed = 0
                     /\ dp'.windspeed = 0
                     /\ dp'.winddirection = 0
            /\ ~ok => data' = data]_vars

\* the wind sentence just read completed the accumulator: the point is the
\* last of the DataSet and the accumulator is reset
C2_Witness ==
    /\ Len(data) >= 1
    /\ sentence.kind = "MWV"
    /\ sentence.wind_speed.ok
    /\ data[Len(data)].windspeed = sentence.wind_speed.v
    /\ dp = DataPoint(data[Len(data)].timestamp, 0, 0, 0)

\* C3: the step that emits a point leaves the emitted timestamp in the
\* accumulator, and from then on every sentence other than a time-bearing
\* one with a decoded time leaves the accumulator's timestamp as it is.
C3_CarryForward ==
    [][(pc = "load" /\ pc' = "load") =>
        /\ Len(data') > Len(data) =>
               dp'.timestamp = data'[Len(data')].timestamp
        /\ (Len(data) >= 1
             /\ ~(sentence'.kind \in TimeKinds /\ sentence'.timestamp.ok)) =>
               dp'.timestamp = dp.timestamp]_vars

\* after an emission a boat-speed sentence has been merged and the
\* accumulator still carries the emitted timestamp
C3_Witness ==
    /\ Len(data) >= 1
    /\ sentence.kind \in BoatKinds
    /\ dp.boatspeed > 0
    /\ dp.windspeed = 0
    /\ dp.timestamp = data[Len(data)].timestamp

\* the accumulator as the sentence of a reader step left it, read back from
\* the state after the step: the point appended by the step if it appended
\* one, the accumulator otherwise
updated_accumulator ==
    IF Len(data') > Len(data) THEN data'[Len(data')] ELSE dp'

\* C15: a time-only sentence whose time decodes changes only the time of day
\* of the accumulator's timestamp and keeps its date (the epoch date when
\* none was set); a full-datetime sentence whose datetime decodes replaces
\* date and time; either leaves boatspeed, windspeed and winddirection as
\* they were, and a timestamp that fails to decode leaves the whole
\* accumulator as it was.
C15_TimestampFrame ==
    [][(pc = "load" /\ pc' = "load" /\ sentence'.kind \in TimeKinds) =>
          LET s   == sentence'
              upd == updated_accumulator
          IN  /\ upd.boatspeed = dp.boatspeed
              /\ upd.windspeed = dp.windspeed
              /\ upd.winddirection = dp.winddirection
              /\ ~s.timestamp.ok => upd = dp
              /\ (s.kind \in TimeOnlyKinds /\ s.timestamp.ok) =>
                     /\ upd.timestamp \div DayMs = dp.timestamp \div DayMs
                     /\ upd.timestamp % DayMs = s.timestamp.v % DayMs
              /\ (s.kind \in FullDateKinds /\ s.timestamp.ok) =>
                     upd.timestamp = s.timestamp.v]_vars

\* a time-only sentence has moved the time of day of an accumulator dated
\* the day after the epoch, its boat speed staying in place
C15_Witness ==
    /\ sentence.kind \in TimeOnlyKinds
    /\ sentence.timestamp = Ok(1000)
    /\ dp.timestamp = DayMs + 1000
    /\ dp.boatspeed = 2 * Unit

\* C16: a wind sentence sets windspeed when its speed decodes and
\* winddirection when its angle decodes, each whatever becomes of the other,
\* and never changes boatspeed or the timestamp; a boat-speed sentence
\* changes boatspeed only, and only when its speed decodes; a sentence of
\* any other kind than these and the time kinds changes none of the four
\* fields.
C16_MeasurementFrame ==
    [][(pc = "load" /\ pc' = "load" /\ sentence'.kind \notin TimeKinds) =>
          LET s   == sentence'
              upd == updated_accumulator
          IN  /\ s.kind = "MWV" =>
                     /\ upd.windspeed =
                            IF s.wind_speed.ok THEN s.wind_speed.v ELSE dp.windspeed
                     /\ upd.winddirection =
                            IF s.angle_true.ok THEN s.angle_true.v
                            ELSE dp.winddirection
                     /\ upd.boatspeed = dp.boatspeed
                     /\ upd.timestamp = dp.timestamp
              /\ s.kind \in BoatKinds =>
                     /\ upd.boatspeed =
                            IF s.water_speed.ok THEN s.water_speed.v ELSE dp.boatspeed
                     /\ upd.windspeed = dp.windspeed
                     /\ upd.winddirection = dp.winddirection
                     /\ upd.timestamp = dp.timestamp
              /\ s.kind \notin BoatKinds \cup {"MWV"} => upd = dp]_vars

\* a wind sentence whose speed decoded and whose angle did not has set the
\* wind speed and left in place the direction of an earlier wind sentence
C16_Witness ==
    /\ sentence.kind = "MWV"
    /\ sentence.wind_speed = Ok(5 * Unit)
    /\ ~sentence.angle_true.ok
    /\ dp = DataPoint(0, 2 * Unit, 5 * Unit, 10 * Unit)

\* C20: after any prefix of the sentence stream the DataSet has at most as
\* many points as boat-speed sentences with a decoded speed > 0 were
\* processed, and at most as many as wind sentences were processed: no
\* measurement serves two emitted points.
C20_PointsBoundedBySentences ==
    /\ Len(data) <= boat_sentences
    /\ Len(data) <= wind_sentences

\* two points have been emitted with exactly as many boat-speed sentences as
\* points
C20_Witness ==
    /\ Len(data) = 2
    /\ boat_sentences = 2
    /\ wind_sentences = 2

----------------------------------------------------------------------------
(* Mode-pair reduction: properties of SpecBin *)

\* the entry of freq among the indices S that a descending order by count
\* puts first, ties between equal counts going to the smaller value
first_asc_value(freq, S) ==
    CHOOSE i \in S : \A j \in S :
        \/ freq[j][2] < freq[i][2]
        \/ freq[j][2] = freq[i][2] /\ freq[j][1] >= freq[i][1]

\* C7: for 2 or more members the result is (min(a,b), max(a,b)), a and b
\* being the representatives of the first and second equality groups in
\* descending order of count, ties broken by ascending value (b = a when
\* there is one group): of three values of equal count the two smallest are
\* chosen.
C7_TopTwoTiesAscending ==
    (pc = "returned" /\ Len(members) >= 2) =>
        LET freq == count_frequencies(members)
            ia   == first_asc_value(freq, 1..Len(freq))
            ib   == IF Len(freq) = 1 THEN ia
                    ELSE first_asc_value(freq, (1..Len(freq)) \ {ia})
        IN  result = <<Min(freq[ia][1], freq[ib][1]), Max(freq[ia][1], freq[ib][1])>>

Injective(f) == \A i, j \in DOMAIN f : f[i] = f[j] => i = j

Reorderings(n) == {f \in [1..n -> 1..n] : Injective(f)}

\* C8: every permutation of the members reduces to the pair the members
\* reduce to, values that are approximately equal without being identical
\* included.
C8_OrderIndependent ==
    pc = "returned" =>
        \A f \in Reorderings(Len(members)) :
            calculate_bin_values([i \in 1..Len(members) |-> members[f[i]]]) = result

\* C9: a non-empty list of members that all have the value v reduces to
\* (v, v), and the empty list to (0, 0).
C9_AllEqual ==
    pc = "returned" =>
        /\ members = <<>> => result = <<0, 0>>
        /\ (members # <<>> /\ \A i \in 1..Len(members) : members[i] = members[1]) =>
               result = <<members[1], members[1]>>

\* three members of one value went through the grouping and came out (v, v)
C9_Witness ==
    /\ pc = "returned"
    /\ Len(members) >= 3
    /\ \A i \in 1..Len(members) : members[i] = members[1]
    /\ result = <<members[1], members[1]>>

Range(f) == {f[i] : i \in DOMAIN f}

Count(f, v) == Cardinality({i \in DOMAIN f : f[i] = v})

\* the members are exactly two distinct values, each occurring as often as
\* the other
TwoValuesEqualCounts(p, q) ==
    /\ Range(members) = {p, q}
    /\ p < q
    /\ Count(members, p) = Count(members, q)

\* C10 as amended: two values p < q that are not approximately equal (they
\* differ by the grouping tolerance or more) and occur the same number of
\* times, in any order, reduce to (p, q).
C10_TwoValuesApart ==
    pc = "returned" =>
        \A p, q \in BinVals :
            (TwoValuesEqualCounts(p, q) /\ ~approx_eq(p, q)) => result = <<p, q>>

\* C10 as claimed: any two distinct values p < q occurring the same number
\* of times reduce to (p, q).
C10_TwoValuesDistinct ==
    pc = "returned" =>
        \A p, q \in BinVals :
            TwoValuesEqualCounts(p, q) => result = <<p, q>>

\* q, p, q, p with p = 1.0 and q = 2.0 has been reduced to (p, q)
C10_Witness ==
    /\ pc = "returned"
    /\ members = <<2 * Unit, Unit, Unit, 2 * Unit>>
    /\ result = <<Unit, 2 * Unit>>

----------------------------------------------------------------------------
(* Renderer: properties of SpecGraph *)

\* C4: with fewer than 2 data points inside the visible range, graph does
\* not fail and issues no draw call.
C4_BlankBelowTwoVisible ==
    Len(visible) < 2 => (pc # "panic" /\ column = <<>>)

\* C5: the binning sweep terminates, whatever the DataSet, the visible range
\* and the width.  The loop runs while bin_start_time <= stop_time and
\* stop_time is fixed, so it terminates exactly if every iteration moves
\* bin_start_time forward; an iteration that leaves it in place repeats
\* itself without end.
C5_SweepTerminates ==
    [][(pc = "sweep" /\ pc' = "sweep") => bin_start_time' > bin_start_time]_vars

\* C6: in a sweep with a positive bin duration every draw call has its
\* column index x in 0..width-1.
C6_ColumnsWithinWidth ==
    (pc \in {"sweep", "done"} /\ bin_time_range > 0) =>
        \A i \in 1..Len(column) : column[i].x \in 0..(width - 1)

\* C12: on ScenarioData with width 1 and the visible range [0 s, 2 s] the
\* sweep draws column 0 and no other: every draw call has x = 0, the boat
\* segment is the single row of value 2 under the speed scale (height-1)/10,
\* the wind segment the single row of value 5 under that scale, and the
\* direction segment the single row height - 10 * height / 180.
C12_EndToEnd ==
    (data = ScenarioData /\ width = 1 /\ start_datetime = 0 /\ end_datetime = 2000) =>
        /\ pc = "done" => column # <<>>
        /\ column # <<>> =>
              /\ Len(column) = 9
              /\ \A i \in 1..Len(column) : column[i].x = 0
              /\ column[3].y0 = (2 * (height - 1)) \div 10
              /\ column[3].y1 = (2 * (height - 1)) \div 10
              /\ column[6].y0 = (5 * (height - 1)) \div 10
              /\ column[6].y1 = (5 * (height - 1)) \div 10
              /\ column[9].y0 = height - (10 * height) \div 180
              /\ column[9].y1 = height - (10 * height) \div 180

\* C13: for an empty DataSet graph completes without failing, issues no
\* draw call, and returns the canvas created with exactly the requested
\* width and height.
C13_EmptyDataSet ==
    (data = <<>> /\ pc # "graph") =>
        /\ pc = "done"
        /\ column = <<>>
        /\ graphicimage = [width |-> width, height |-> height]

\* graph has returned for an empty DataSet, with a canvas that is not square
C13_Witness ==
    /\ data = <<>>
    /\ pc = "done"
    /\ width # height
    /\ graphicimage.width = width
    /\ graphicimage.height = height

\* the draw call d is the tick of the row y
is_tick(d, y) == d.y0 = Max(y - 6, 0) /\ d.y1 = Min(y + 6, height - 1)

\* the draw calls c[k+1], c[k+2], c[k+3] are the tick at the low row, the
\* tick at the high row and the segment between the two rows, in one colour
is_item(c, k, colour) ==
    /\ \A i \in (k + 1)..(k + 3) : c[i].colour = colour
    /\ is_tick(c[k + 1], c[k + 3].y0)
    /\ is_tick(c[k + 2], c[k + 3].y1)

\* C14: every column drawn consists of exactly 9 draw calls: tick at y_low,
\* tick at y_high, segment y_low..y_high for the boat speed, then the same
\* three for the wind speed, then the same three for the wind direction.
\* The 9 calls of an iteration all carry the column index of that iteration,
\* the next iteration draws the next column index, and its bin starts later
\* by the bin duration (never before the bin of the column to its left).
C14_DrawOrder ==
    /\ [](column # <<>> =>
            /\ Len(column) = 9
            /\ is_item(column, 0, "BOAT_SPEED_COLOUR")
            /\ is_item(column, 3, "WIND_SPEED_COLOUR")
            /\ is_item(column, 6, "WIND_DIRECTION_COLOUR"))
    /\ [][(pc = "sweep" /\ bin_start_time <= stop_time) =>
            /\ \A i \in 1..Len(column') : column'[i].x = x
            /\ x' = x + 1
            /\ bin_start_time' = bin_start_time + bin_time_range
            /\ bin_start_time' >= bin_start_time]_vars

\* two columns have been drawn one after the other, the second from a bin
\* whose low and high boat-speed rows differ
C14_Witness ==
    /\ pc = "sweep"
    /\ x = 2
    /\ Len(column) = 9
    /\ column[1].x = 1
    /\ column[3].y0 < column[3].y1
    /\ column[1] # column[2]

\* C17: every data point that is a member of the bin of a column has its
\* timestamp inside [start_datetime, end_datetime]; a point before the start
\* or after the end of the visible range is in no bin, the last included.
C17_BinMembersVisible ==
    (pc = "sweep" /\ bin_start_time <= stop_time) =>
        \A i \in 1..Len(data) :
            (/\ data[i].timestamp >= bin_start_time
             /\ data[i].timestamp < bin_start_time + bin_time_range) =>
                (/\ data[i].timestamp >= start_datetime
                 /\ data[i].timestamp <= end_datetime)

\* C18: every tick drawn at a row y (the low or the high row of a channel)
\* spans from max(y - 6, 0) to min(y + 6, height - 1); both of its endpoints
\* lie in [0, height - 1] and the first is not greater than the second.
C18_TicksClamped ==
    column # <<>> =>
        \A k \in {0, 3, 6} : \A j \in {1, 2} :
            LET tick == column[k + j]
                y    == IF j = 1 THEN column[k + 3].y0 ELSE column[k + 3].y1
            IN  /\ tick.y0 = Max(y - 6, 0)
                /\ tick.y1 = Min(y + 6, height - 1)
                /\ 0 <= tick.y0
                /\ tick.y0 <= tick.y1
                /\ tick.y1 <= height - 1

\* C19: in every column and for every channel the rows of the connecting
\* segment satisfy 0 <= y_low <= y_high <= height - 1, a bin without members
\* (reduced to (0, 0)) and a wind direction of 0 included.
C19_SegmentsInsideCanvas ==
    column # <<>> =>
        \A k \in {3, 6, 9} :
            /\ 0 <= column[k].y0
            /\ column[k].y0 <= column[k].y1
            /\ column[k].y1 <= height - 1

----------------------------------------------------------------------------
(* Wind-direction fold: properties of SpecFold *)

\* C11: the fold is the identity on [0, 180], maps 200 to 160, 360 to 0 and
\* 0 to 0, maps every direction of [0, 360] into [0, 180], and folding a
\* folded direction again changes nothing.
C11_Fold ==
    pc = "folded" =>
        LET v == members[1]
            r == result[1]
        IN  /\ (0 <= v /\ v <= 180 * Unit) => r = v
            /\ v = 200 * Unit => r = 160 * Unit
            /\ v = 360 * Unit => r = 0
            /\ v = 0 => r = 0
            /\ 0 <= r /\ r <= 180 * Unit
            /\ result[2] = r

\* 200 degrees has been folded to 160, and folded again to 160
C11_Witness ==
    /\ pc = "folded"
    /\ members = <<200 * Unit>>
    /\ result = <<160 * Unit, 160 * Unit>>

====
